---- MODULE Spec2Model ----
(***************************************************************************)
(* A model of the batch orchestration of haven_vlm_connector.py:           *)
(* tag_videos (the coordinator), __tag_video_with_timing / __tag_video     *)
(* (one job per scene, run under the semaphore created in main), the       *)
(* progress callback, and the calls a job makes to the media handler.      *)
(*                                                                         *)
(* Scheduling: asyncio, one thread.  A coroutine yields control only at an *)
(* await.  The awaits of the batch are: `async with semaphore` (line 262), *)
(* `await vlm_engine.process_video_async` (line 277) and                   *)
(* `await completed_task` (line 152).  Every media_handler call is a plain *)
(* synchronous call, so the code between two awaits is one action.         *)
(***************************************************************************)
EXTENDS Integers, Sequences, FiniteSets, TLC

\* ------------------------------------------------------------------ bounds
\* The most scenes a batch holds, and the largest concurrent_task_limit tried
\* (the shipped configuration sets 10, far above any batch that can be explored;
\* the gate matters when the limit is below the number of scenes).
MaxScenes == 2
MaxLimit == 2
MaxTime == 3
MaxMarkers == 2

\* ------------------------------------------------- inputs and environment
\* Percent values the engine passes to progress_cb (an int in 0..100).
Percents == {50, 100}

\* Tag names known to the catalogue and the ids it gives them.
TagNames == {"X", "Y", "Z"}
TagIdOf == ("X" :> 1) @@ ("Y" :> 2) @@ ("Z" :> 3)

\* media_handler.get_tag_ids(names, create=True): the ids of the names.
TagIds(names) == {TagIdOf[n] : n \in names}

\* The names of a set of tag ids.
NamesOf(ids) == {n \in TagNames : TagIdOf[n] \in ids}

\* The analysis-derived tags and markers a pending scene may already carry.
Priors ==
    { [tags |-> {}, markers |-> {}],
      [tags |-> TagIds({"X", "Y"}), markers |-> {"X"}] }

\* Results process_video_async may return: video_tags maps a category to its
\* tags, tag_timespans is the set of tag names that come with time spans.
Results ==
    { [video_tags |-> [actions |-> {}, objects |-> {}], tag_timespans |-> {}],
      [video_tags |-> [actions |-> {"Z"}, objects |-> {"Z"}], tag_timespans |-> {"Z"}] }

\* config.config.create_markers
create_markers == TRUE

\* The calls of the try block of __tag_video that may raise.
TrySteps ==
    { "clear_all_tags_from_video", "clear_all_markers_from_video", "get_tag_ids",
      "add_tags_to_video", "add_markers_to_video_from_dict",
      "remove_tagme_tag_from_scene" }

\* The writes of a re-tagging: the two clears and the two writes.
ClearSteps == {"clear_all_tags_from_video", "clear_all_markers_from_video"}
WriteSteps == {"add_tags_to_video", "add_markers_to_video_from_dict"}

\* ------------------------------------------------------------------- state
VARIABLES
    limit,            \* config.config.concurrent_task_limit
    semaphore,        \* free permits of the asyncio.Semaphore made in main
    nscenes,          \* how many scenes carry the VLM_TagMe tag
    scene_tags,       \* scene['tags'] of each enumerated scene (the snapshot)
    stash,            \* the catalogue: per scene its tags, markers, tagme, errored
    coord,            \* where tag_videos is
    total_tasks,      \* global total_tasks
    completed_tasks,  \* global completed_tasks
    yielded,          \* futures of as_completed the loop has awaited so far
    video_progress,   \* global video_progress: scene id -> percent / 100
    log_progress,     \* the last value given to log.progress (<<>> before the first)
    task,             \* state of each job's task
    exc,              \* the call whose exception line 309 caught ("none" if none)
    detected_tags,    \* the job's detected_tags once the engine returned
    media_calls,      \* the media_handler calls of the job that completed
    done_queue,       \* finished tasks in completion order, not yet awaited
    engine_calls,     \* calls made to vlm_engine.process_video_async
    now,              \* asyncio.get_event_loop().time()
    batch_start_time, \* batch_start_time of tag_videos
    report,           \* the last timing line given to log.info (<<>> before the first)
    proc,             \* where the process is: load, main, workflow, ok, exit1
    mode,             \* json_input['args']['mode'] of the request
    stdout,           \* the responses printed by main
    diag,             \* the messages printed while the module loads
    run_errors,       \* the log.error calls of run, find_marker_settings and line 366
    markers,          \* media_handler.get_scene_markers of the selected scene
    optimizer_call,   \* the arguments of find_optimal_marker_settings_async
    surfaced          \* the settings given to log.info by __find_marker_settings

\* The variables of the timing lines, and those of the process around the batch.
timevars == << now, batch_start_time, report >>
respvars == << proc, stdout >>
reqvars == << mode, diag, run_errors, markers, optimizer_call, surfaced >>

vars ==
    << limit, semaphore, nscenes, scene_tags, stash, coord, total_tasks,
       completed_tasks, yielded, video_progress, log_progress, task, exc,
       detected_tags, media_calls, done_queue, engine_calls, now,
       batch_start_time, report, proc, mode, stdout, diag, run_errors, markers,
       optimizer_call, surfaced >>

Jobs == 1..nscenes

\* A progress ratio num/den, kept exact.
Ratio(n, d) == [num |-> n, den |-> d]
RatioLeq(a, b) == a.num * b.den <= b.num * a.den
RatioEq(a, b) == a.num * b.den = b.num * a.den

RECURSIVE SumOver(_, _)
SumOver(f, S) ==
    IF S = {} THEN 0
    ELSE LET x == CHOOSE y \in S : TRUE IN f[x] + SumOver(f, S \ {x})

\* Task states in which the job is inside `async with semaphore`.
InGate == {j \in Jobs : task[j] = "inference"}
Finished == {j \in Jobs : task[j] \in {"returned", "raised"}}

\* The pending scenes and what the catalogue holds of them.
InitCatalogue ==
    /\ nscenes \in 0..MaxScenes
    /\ \E pr \in Priors :
          /\ scene_tags = [j \in 1..nscenes |-> pr.tags]
          /\ stash = [j \in 1..nscenes |->
                        [tags |-> pr.tags, markers |-> pr.markers,
                         tagme |-> TRUE, errored |-> FALSE]]

\* The module's globals (lines 62-67) and a batch that has not begun.
InitBatch ==
    /\ coord = "start"
    /\ total_tasks = 0
    /\ completed_tasks = 0
    /\ yielded = 0
    /\ video_progress = << >>
    /\ log_progress = << >>
    /\ task = [j \in 1..nscenes |-> "none"]
    /\ exc = [j \in 1..nscenes |-> "none"]
    /\ detected_tags = [j \in 1..nscenes |-> {}]
    /\ media_calls = [j \in 1..nscenes |-> {}]
    /\ done_queue = << >>
    /\ engine_calls = 0
    /\ now = 0
    /\ batch_start_time = 0
    /\ report = << >>

\* Nothing printed, logged or asked of the optimizer yet.
InitQuiet ==
    /\ stdout = << >>
    /\ diag = {}
    /\ run_errors = {}
    /\ optimizer_call = << >>
    /\ surfaced = << >>

\* The batch specifications start where run has dispatched to tag_videos
\* (line 103), the semaphore made by main (line 74).
Init ==
    /\ limit \in 0..MaxLimit
    /\ semaphore = limit
    /\ InitCatalogue
    /\ InitBatch
    /\ InitQuiet
    /\ proc = "workflow"
    /\ mode = "tag_videos"
    /\ markers = << >>

\* ------------------------------------------------- the media handler calls
\* The state a job's synchronous section works on: the scene's catalogue entry,
\* the calls completed so far and the call that raised, if one did.
JobState(j) ==
    [tags |-> stash[j].tags, markers |-> stash[j].markers, tagme |-> stash[j].tagme,
     errored |-> stash[j].errored, calls |-> media_calls[j], exc |-> "none"]

\* One call inside the try block: skipped once an exception is pending, raising
\* when it is the call that fails (f), and otherwise taking effect.
Call(st, step, f, after) ==
    IF st.exc # "none" THEN st
    ELSE IF f = step THEN [st EXCEPT !.exc = step]
    ELSE [after EXCEPT !.calls = st.calls \cup {step}]

clear_all_tags_from_video(st, f) ==
    Call(st, "clear_all_tags_from_video", f, [st EXCEPT !.tags = {}])

clear_all_markers_from_video(st, f) ==
    Call(st, "clear_all_markers_from_video", f, [st EXCEPT !.markers = {}])

get_tag_ids(st, f) ==
    Call(st, "get_tag_ids", f, st)

add_tags_to_video(st, tag_ids, f) ==
    Call(st, "add_tags_to_video", f, [st EXCEPT !.tags = @ \cup tag_ids])

add_markers_to_video_from_dict(st, spans, f) ==
    Call(st, "add_markers_to_video_from_dict", f, [st EXCEPT !.markers = @ \cup spans])

remove_tagme_tag_from_scene(st, f) ==
    Call(st, "remove_tagme_tag_from_scene", f, [st EXCEPT !.tagme = FALSE])

add_error_scene(st) ==
    [st EXCEPT !.errored = TRUE, !.calls = @ \cup {"add_error_scene"}]

\* ------------------------------------------------------------ __tag_video
\* Lines 287-289: the union of the detected tags over the categories.
DetectedTags(r) == UNION {r.video_tags[c] : c \in DOMAIN r.video_tags}

\* The block without the two clears.
ApplyDetected_NoClear(st, r, f) ==
    LET c == add_tags_to_video(get_tag_ids(st, f), TagIds(DetectedTags(r)), f)
    IN  IF create_markers THEN add_markers_to_video_from_dict(c, r.tag_timespans, f)
        ELSE c

\* Lines 292-304, the body of `if detected_tags:`.
ApplyDetected(st, r, f) ==
    LET a == clear_all_tags_from_video(st, f)
        b == clear_all_markers_from_video(a, f)
        c == add_tags_to_video(get_tag_ids(b, f), TagIds(DetectedTags(r)), f)
    IN  IF create_markers THEN add_markers_to_video_from_dict(c, r.tag_timespans, f)
        ELSE c

\* The removal of the pending tag placed inside the `if detected_tags` block.
AfterInference_RemoveOnlyIfTagged(st, r, f) ==
    IF DetectedTags(r) # {}
    THEN remove_tagme_tag_from_scene(ApplyDetected(st, r, f), f)
    ELSE st

\* The clears and writes made whatever the tag union is.
AfterInference_ClearAlways(st, r, f) ==
    remove_tagme_tag_from_scene(ApplyDetected(st, r, f), f)

\* The pending tag removed first, before the clears and writes.
AfterInference_RemoveFirst(st, r, f) ==
    LET s1 == remove_tagme_tag_from_scene(st, f)
    IN  IF DetectedTags(r) # {} THEN ApplyDetected(s1, r, f) ELSE s1

\* Lines 286-307: what follows the engine's return inside the try block.
AfterInference(st, r, f) ==
    LET s1 == IF DetectedTags(r) # {} THEN ApplyDetected(st, r, f) ELSE st
    IN  remove_tagme_tag_from_scene(s1, f)

\* Lines 309-312: the handler.  It runs when the try block raised; its own call
\* add_error_scene may raise too (errFails), and nothing catches that.
Handler(st, errFails) ==
    IF st.exc = "none" \/ errFails THEN st ELSE add_error_scene(st)

\* How the task ends: an exception leaves __tag_video only out of the handler,
\* and __tag_video_with_timing (lines 254-258) re-raises it.
Outcome(st, errFails) ==
    IF st.exc # "none" /\ errFails THEN "raised" ELSE "returned"

\* ------------------------------------------------------------ the semaphore
\* asyncio.Semaphore.acquire returns without waiting when a permit is free.
CanAcquire_Always(sem) == TRUE

CanAcquire(sem) == sem > 0

\* A release that a plain acquire()/release() pair would skip on an exception.
Release_SkipOnException(sem, raised) == IF raised THEN sem ELSE sem + 1

\* `async with semaphore`: __aexit__ releases on every way out of the block.
Release(sem, raised) == sem + 1

\* ------------------------------------------------------- progress callback
\* An average over the jobs that have reported, not over all of them.
total_prog_OfStarted(vp, total) ==
    LET started == {j \in DOMAIN vp : vp[j] > 0}
    IN  IF started = {} THEN Ratio(0, 1)
        ELSE Ratio(SumOver(vp, DOMAIN vp), 100 * Cardinality(started))

\* Line 273: sum(video_progress.values()) / total_tasks, the values being
\* percent / 100.0 (line 272).
total_prog(vp, total) == Ratio(SumOver(vp, DOMAIN vp), 100 * total)

\* ------------------------------------------------------------- tag_videos
\* Line 125: `if not scenes`.
NoScenes_Never(n) == FALSE

NoScenes(n) == n = 0

\* A loop whose except branch forgets the counter.
CountAfter_SkipFailed(c, raised) == IF raised THEN c ELSE c + 1

\* Lines 153 and 165: both branches of the loop body add one.
CountAfter(c, raised) == c + 1

\* A loop without the try/except of lines 151-166: the exception leaves it.
LoopAfter_Propagate(raised) == IF raised THEN "crashed" ELSE "draining"

\* Lines 164-166: `except Exception` keeps the loop going.
LoopAfter(raised) == "draining"

\* An average over all the tasks of the batch, not over those completed.
TimingLine_PerTotal(elapsed, completed, total) ==
    LET avg == Ratio(elapsed, total)
    IN  [kind |-> "task", count |-> completed,
         percent |-> Ratio(completed * 100, total), avg |-> avg,
         remaining |-> Ratio((total - completed) * avg.num, avg.den)]

\* Lines 156-162: the line logged for a task that completed.
TimingLine(elapsed, completed, total) ==
    LET avg == IF completed > 0 THEN Ratio(elapsed, completed) ELSE Ratio(0, 1)
    IN  [kind |-> "task", count |-> completed,
         percent |-> Ratio(completed * 100, total), avg |-> avg,
         remaining |-> Ratio((total - completed) * avg.num, avg.den)]

\* Lines 168-169: the line logged when the loop is exhausted.
SummaryLine(total_time, total) ==
    [kind |-> "summary", count |-> total, total_time |-> total_time,
     avg |-> Ratio(total_time, total)]

\* Lines 104-105 and 78-79: the workflow returned to run, which sets the output,
\* and main prints it; nothing awaits on the way.
Respond ==
    /\ stdout' = Append(stdout, [output |-> "ok"])
    /\ proc' = "ok"

\* No registration at the start: an entry appears with a job's first report.
RegisterAll_Lazy(vp, n) == vp

\* Lines 132-134: video_progress.clear(), then one entry of 0.0 per scene.
RegisterAll(vp, n) == [j \in 1..n |-> 0]

\* Lines 124-150, up to the first `await completed_task`.
TagVideosStart ==
    /\ proc = "workflow"
    /\ mode = "tag_videos"
    /\ coord = "start"
    /\ IF NoScenes(nscenes)
       THEN /\ coord' = "returned"
            /\ Respond
            /\ UNCHANGED << total_tasks, completed_tasks, video_progress,
                            log_progress, task, batch_start_time >>
       ELSE /\ total_tasks' = nscenes
            /\ completed_tasks' = 0
            /\ video_progress' = RegisterAll(video_progress, nscenes)
            /\ log_progress' = << Ratio(0, 1) >>
            /\ task' = [j \in Jobs |-> "created"]
            /\ batch_start_time' = now
            /\ coord' = "draining"
            /\ UNCHANGED respvars
    /\ UNCHANGED << limit, semaphore, nscenes, scene_tags, stash, yielded, exc,
                    detected_tags, media_calls, done_queue, engine_calls, now,
                    report >>
    /\ UNCHANGED reqvars

\* The end of a job's task: the catalogue as the job left it, the permit given
\* back on the way out of `async with`, the task done and queued for the loop.
EndJob(j, st, errFails, sem) ==
    LET fin == Handler(st, errFails)
        out == Outcome(st, errFails)
    IN  /\ stash' = [stash EXCEPT ![j] =
                        [tags |-> fin.tags, markers |-> fin.markers,
                         tagme |-> fin.tagme, errored |-> fin.errored]]
        /\ media_calls' = [media_calls EXCEPT ![j] = fin.calls]
        /\ exc' = [exc EXCEPT ![j] = fin.exc]
        /\ task' = [task EXCEPT ![j] = out]
        /\ done_queue' = Append(done_queue, j)
        /\ semaphore' = Release(sem, out = "raised")

\* Lines 262-284 once the permit is held: resolve the scene (lines 264-268, which
\* raise when ok is FALSE) and call the engine, which suspends the job.
EnterGate(j, sem, ok, errFails) ==
    IF ok
    THEN /\ task' = [task EXCEPT ![j] = "inference"]
         /\ semaphore' = sem
         /\ engine_calls' = engine_calls + 1
         /\ UNCHANGED << stash, media_calls, exc, done_queue >>
    ELSE /\ EndJob(j, [JobState(j) EXCEPT !.exc = "is_vr_scene"], errFails, sem)
         /\ UNCHANGED engine_calls

\* Lines 241-262: the task starts and reaches `async with semaphore`.
StartTask(j, ok, errFails) ==
    /\ coord = "draining"
    /\ task[j] = "created"
    /\ IF CanAcquire(semaphore)
       THEN EnterGate(j, semaphore - 1, ok, errFails)
       ELSE /\ task' = [task EXCEPT ![j] = "waiting"]
            /\ UNCHANGED << semaphore, stash, media_calls, exc, done_queue,
                            engine_calls >>
    /\ UNCHANGED << limit, nscenes, scene_tags, coord, total_tasks, completed_tasks,
                    yielded, video_progress, log_progress, detected_tags >>
    /\ UNCHANGED << timevars, respvars, reqvars >>

\* Line 262: a waiting job is given a permit that was released.
Wake(j, ok, errFails) ==
    /\ coord = "draining"
    /\ task[j] = "waiting"
    /\ CanAcquire(semaphore)
    /\ EnterGate(j, semaphore - 1, ok, errFails)
    /\ UNCHANGED << limit, nscenes, scene_tags, coord, total_tasks, completed_tasks,
                    yielded, video_progress, log_progress, detected_tags >>
    /\ UNCHANGED << timevars, respvars, reqvars >>

\* A store made from a snapshot taken before the other jobs reported: their
\* entries go back to what they were at the start of the batch.
StoreProgress_FromSnapshot(vp, j, p) == [k \in DOMAIN vp |-> IF k = j THEN p ELSE 0]

\* Line 272: video_progress[scene_id] = p / 100.0, one assignment to one key.
StoreProgress(vp, j, p) == [vp EXCEPT ![j] = p]

\* Lines 270-274: progress_cb(p), called by the engine while the job awaits it.
ProgressCb(j, p) ==
    /\ coord = "draining"
    /\ task[j] = "inference"
    /\ video_progress' = StoreProgress(video_progress, j, p)
    /\ log_progress' = << total_prog(video_progress', total_tasks) >>
    /\ UNCHANGED << limit, semaphore, nscenes, scene_tags, stash, coord, total_tasks,
                    completed_tasks, yielded, task, exc, detected_tags, media_calls,
                    done_queue, engine_calls >>
    /\ UNCHANGED << timevars, respvars, reqvars >>

\* Lines 277-312 when the engine returns r: the rest of the job runs without an
\* await; f is the media handler call that raises ("none": no call does).
InferenceReturns(j, r, f, errFails) ==
    /\ coord = "draining"
    /\ task[j] = "inference"
    /\ detected_tags' = [detected_tags EXCEPT ![j] = DetectedTags(r)]
    /\ EndJob(j, AfterInference(JobState(j), r, f), errFails, semaphore)
    /\ UNCHANGED << limit, nscenes, scene_tags, coord, total_tasks, completed_tasks,
                    yielded, video_progress, log_progress, engine_calls >>
    /\ UNCHANGED << timevars, respvars, reqvars >>

\* Lines 277 and 309-312 when the engine raises.
InferenceRaises(j, errFails) ==
    /\ coord = "draining"
    /\ task[j] = "inference"
    /\ EndJob(j, [JobState(j) EXCEPT !.exc = "process_video_async"], errFails,
              semaphore)
    /\ UNCHANGED << limit, nscenes, scene_tags, coord, total_tasks, completed_tasks,
                    yielded, video_progress, log_progress, detected_tags,
                    engine_calls >>
    /\ UNCHANGED << timevars, respvars, reqvars >>

\* A loop left after the first completion.
LoopExhausted_AfterFirst(y, total) == y >= 1

\* Line 150: the iterator of as_completed yields one awaitable per task, so the
\* `for` ends once as many have been taken as there are tasks.
LoopExhausted(y, total) == y = total

\* A loop that awaits the tasks in the order of their creation.
NextReady_SubmissionOrder(q, y, tk) == tk[y + 1] \in {"returned", "raised"}

\* Lines 147 and 152: each awaitable of asyncio.as_completed resolves with the
\* next task to finish, so the loop goes on as soon as a finished task it has
\* not taken yet exists, whichever task that is.
NextReady(q, y, tk) == q # << >>

\* Lines 150-166: one turn of the loop, on the next task to have finished.
Consume ==
    /\ coord = "draining"
    /\ yielded < total_tasks
    /\ NextReady(done_queue, yielded, task)
    /\ LET raised == task[Head(done_queue)] = "raised"
       IN  /\ completed_tasks' = CountAfter(completed_tasks, raised)
           /\ coord' = LoopAfter(raised)
           /\ report' = IF raised THEN report
                         ELSE << TimingLine(now - batch_start_time, completed_tasks',
                                            total_tasks) >>
    /\ yielded' = yielded + 1
    /\ done_queue' = Tail(done_queue)
    /\ UNCHANGED << limit, semaphore, nscenes, scene_tags, stash, total_tasks,
                    video_progress, log_progress, task, exc, detected_tags,
                    media_calls, engine_calls, now, batch_start_time >>
    /\ UNCHANGED << respvars, reqvars >>

\* Lines 168-170, 104-105 and 78-79: the loop is exhausted, tag_videos returns
\* and the response is printed.
FinishBatch ==
    /\ coord = "draining"
    /\ LoopExhausted(yielded, total_tasks)
    /\ report' = << SummaryLine(now - batch_start_time, total_tasks) >>
    /\ log_progress' = << Ratio(1, 1) >>
    /\ coord' = "done"
    /\ Respond
    /\ UNCHANGED << limit, semaphore, nscenes, scene_tags, stash, total_tasks,
                    completed_tasks, yielded, video_progress, task, exc,
                    detected_tags, media_calls, done_queue, engine_calls, now,
                    batch_start_time >>
    /\ UNCHANGED reqvars

\* Lines 360-364: the process is interrupted while the loop awaits; asyncio.run
\* cancels the main task, and tag_videos is left by CancelledError, which
\* `except Exception` does not catch.
Interrupt ==
    /\ coord = "draining"
    /\ coord' = "interrupted"
    /\ UNCHANGED << limit, semaphore, nscenes, scene_tags, stash, total_tasks,
                    completed_tasks, yielded, video_progress, log_progress, task,
                    exc, detected_tags, media_calls, done_queue, engine_calls >>
    /\ UNCHANGED << timevars, respvars, reqvars >>

\* asyncio.run then cancels every task still pending.  CancelledError passes the
\* `except Exception` of lines 309 and 254 and leaves `async with` (line 262).
Cancel(j) ==
    /\ coord = "interrupted"
    /\ task[j] \in {"created", "waiting", "inference"}
    /\ semaphore' = IF task[j] = "inference" THEN Release(semaphore, TRUE)
                    ELSE semaphore
    /\ task' = [task EXCEPT ![j] = "cancelled"]
    /\ UNCHANGED << limit, nscenes, scene_tags, stash, coord, total_tasks,
                    completed_tasks, yielded, video_progress, log_progress, exc,
                    detected_tags, media_calls, done_queue, engine_calls >>
    /\ UNCHANGED << timevars, respvars, reqvars >>

\* ------------------------------------------------------------ the process
\* The variables of the batch, which the steps around it leave alone.
batchvars ==
    << nscenes, scene_tags, stash, coord, total_tasks, completed_tasks, yielded,
       video_progress, log_progress, task, exc, detected_tags, media_calls,
       done_queue, engine_calls >>

\* Line 62: `semaphore` is None until main makes it; a Semaphore's value is
\* never negative, so the number stands for None.
NoSemaphore == -1

\* How lines 19-56 can end: PythonDepManager missing (line 20), ensure_import
\* raising ImportError or another exception (line 23), an import after it
\* failing (lines 32-36), a local module missing (lines 48-56).
DepOutcomes ==
    { "ok", "manager_missing", "ensure_import_error", "ensure_other_error",
      "import_failed", "local_missing" }

\* Lines 38-45: what the handlers print.  A failing local import is not inside
\* the try block and prints nothing.
Diagnostic(o) ==
    CASE o \in {"manager_missing", "ensure_import_error", "import_failed"} ->
            { "Failed to import PythonDepManager or required dependencies",
              "Please ensure PythonDepManager is installed and available." }
      [] o = "ensure_other_error" ->
            { "Error during dependency management", "Stack trace" }
      [] OTHER -> {}

\* The module went on as if the dependencies were there.
AfterLoad_Continue(o) == "main"

\* Lines 40, 45 and 52: sys.exit(1), or the exception of line 52 ends the
\* interpreter; otherwise the module body reaches line 361.
AfterLoad(o) == IF o = "ok" THEN "main" ELSE "exit1"

\* Lines 19-56 and 360-361: the module body.
LoadModule(o) ==
    /\ proc = "load"
    /\ diag' = diag \cup Diagnostic(o)
    /\ proc' = AfterLoad(o)
    /\ UNCHANGED << limit, semaphore, batchvars, timevars, stdout, mode,
                    run_errors, markers, optimizer_call, surfaced >>

\* The values of json_input['args']['mode']; "missing" is the KeyError of
\* line 99 and "unknown" any other string.
Modes ==
    { "tag_videos", "find_marker_settings", "collect_incorrect_markers",
      "missing", "unknown" }

\* Lines 102-116: where run goes for a mode.
Dispatch(m) ==
    IF m \in {"tag_videos", "find_marker_settings", "collect_incorrect_markers"}
    THEN "workflow"
    ELSE "ok"

\* The failure of the initialization logged and then dropped.
AfterInitialize_Swallowed(initOk, m) == Dispatch(m)

\* Lines 89-95: a failure is logged and raised again; it leaves main and
\* asyncio.run and reaches line 365, which logs "Plugin failed: " and the
\* exception (run_errors names the call that raised it) and exits with 1.
AfterInitialize(initOk, m) == IF initOk THEN Dispatch(m) ELSE "exit1"

\* asyncio.Semaphore(value) raises ValueError for a negative value only.
SemaphoreRaises(n) == n < 0

\* Lines 71-116 up to the workflow: the semaphore, the request, the
\* initialization and the dispatch.  Nothing awaits on the way, and a mode
\* without a workflow goes straight to the response.
Main(readOk, initOk) ==
    /\ proc = "main"
    /\ IF SemaphoreRaises(limit) \/ ~readOk
       THEN /\ proc' = "exit1"
            /\ run_errors' = run_errors \cup
                    { IF SemaphoreRaises(limit) THEN "Plugin failed: Semaphore"
                      ELSE "Plugin failed: read_json_input" }
            /\ semaphore' = IF SemaphoreRaises(limit) THEN semaphore ELSE limit
            /\ UNCHANGED stdout
       ELSE /\ semaphore' = limit
            /\ proc' = AfterInitialize(initOk, mode)
            /\ run_errors' = IF initOk THEN run_errors
                             ELSE run_errors \cup
                                    { "Failed to initialize media handler",
                                      "Plugin failed: initialize" }
            /\ stdout' = IF AfterInitialize(initOk, mode) = "ok"
                         THEN Append(stdout, [output |-> "ok"])
                         ELSE stdout
    /\ UNCHANGED << limit, batchvars, timevars, mode, diag, markers,
                    optimizer_call, surfaced >>

\* Lines 124 and 174: get_tagme_scenes raises.  Neither workflow catches it, so
\* it leaves run and main and reaches line 365.
EnumerationRaises ==
    /\ proc = "workflow"
    /\ \/ mode = "tag_videos" /\ coord = "start"
       \/ mode = "find_marker_settings" /\ optimizer_call = << >>
    /\ proc' = "exit1"
    /\ run_errors' = run_errors \cup {"Plugin failed: get_tagme_scenes"}
    /\ UNCHANGED << limit, semaphore, batchvars, timevars, stdout, mode, diag,
                    markers, optimizer_call, surfaced >>

\* Lines 181-237, 110-112 and 78-79: the export routine has no await.  It
\* returns, and the response is printed, or an exception leaves it (the reads of
\* lines 183-185, the `raise e` of line 204, the calls of lines 217-237).
collect_incorrect_markers_and_images(ok) ==
    /\ proc = "workflow"
    /\ mode = "collect_incorrect_markers"
    /\ IF ok
       THEN Respond /\ UNCHANGED run_errors
       ELSE /\ proc' = "exit1"
            /\ run_errors' = run_errors \cup {"Plugin failed: export"}
            /\ UNCHANGED stdout
    /\ UNCHANGED << limit, semaphore, batchvars, timevars, mode, diag, markers,
                    optimizer_call, surfaced >>

\* ------------------------------------------------- find_marker_settings
\* An optional value: << >> is None and << x >> is x.
None == << >>
Some(x) == << x >>

\* The markers media_handler.get_scene_markers can give: the key end_seconds
\* absent, present and None, or present with a number.
MarkerTags == {"TagA", "TagB"}
MarkerStarts == {10, 12}
KnownMarkers ==
    [primary_tag : MarkerTags, seconds : MarkerStarts]
        \cup [primary_tag : MarkerTags, seconds : MarkerStarts,
              end_seconds : {None, Some(15)}]

RECURSIVE SeqsUpTo(_, _)
SeqsUpTo(S, n) ==
    IF n = 0 THEN {<< >>}
    ELSE LET shorter == SeqsUpTo(S, n - 1)
         IN  shorter \cup {Append(q, x) : q \in shorter, x \in S}

\* The parameter objects find_optimal_marker_settings_async can return.
Settings ==
    { [threshold |-> 5, min_duration |-> 1, max_gap |-> 2],
      [threshold |-> 7, min_duration |-> 3, max_gap |-> 0] }

\* Line 329: marker.get('end_seconds', marker['seconds'] + 1).  dict.get gives
\* the default only when the key is absent.
MarkerEnd(marker) ==
    IF "end_seconds" \in DOMAIN marker THEN marker.end_seconds
    ELSE Some(marker.seconds + 1)

\* Lines 327-331.
TimeFrame(marker) ==
    [start |-> marker.seconds, end |-> MarkerEnd(marker), total_confidence |-> 1]

\* A store that keeps the value a key already has (dict.setdefault).
SetItem_KeepFirst(d, key, value) ==
    [t \in DOMAIN d \cup {key} |-> IF t \in DOMAIN d THEN d[t] ELSE value]

\* Line 327: desired_timespan_data[tag_name] = ..., the assignment to a key of
\* a dict: a new key is added, the value of a key already there is replaced.
SetItem(d, key, value) ==
    [t \in DOMAIN d \cup {key} |-> IF t = key THEN value ELSE d[t]]

\* Lines 324-331: the dict built over the markers in their order; an assignment
\* to a key already there replaces its value.
RECURSIVE desired_timespan_data(_)
desired_timespan_data(ms) ==
    IF ms = << >> THEN << >>
    ELSE LET before == desired_timespan_data(SubSeq(ms, 1, Len(ms) - 1))
             marker == ms[Len(ms)]
         IN  SetItem(before, marker.primary_tag, TimeFrame(marker))

\* Lines 334-337: existing_json is the literal {} ("No existing JSON data").
OptimizerArgs(ms) ==
    [existing_json |-> << >>, desired_timespan_data |-> desired_timespan_data(ms)]

\* Line 341: json.dumps of a dict of small non-negative integers, each key with
\* the text of its value.
Digits == << "0", "1", "2", "3", "4", "5", "6", "7", "8", "9" >>
json_dumps(obj) == [k \in DOMAIN obj |-> Digits[obj[k] + 1]]

\* Only an empty selection refused, the first scene taken otherwise.
NotOneScene_OnlyEmpty(n) == n = 0

\* Line 175: len(scenes) != 1.
NotOneScene(n) == n # 1

\* Lines 172-179 and 314-337, up to the await of line 334; where the workflow
\* ends before it, run sets the output and main prints it (lines 107, 78-79).
FindMarkerSettings(getOk) ==
    /\ proc = "workflow"
    /\ mode = "find_marker_settings"
    /\ optimizer_call = << >>
    /\ IF NotOneScene(nscenes)
       THEN /\ run_errors' = run_errors \cup {"Please tag exactly one scene"}
            /\ Respond
            /\ UNCHANGED optimizer_call
       ELSE IF ~getOk
       THEN /\ run_errors' = run_errors \cup {"Error finding marker settings"}
            /\ Respond
            /\ UNCHANGED optimizer_call
       ELSE /\ optimizer_call' = << [args |-> OptimizerArgs(markers), result |-> None] >>
            /\ UNCHANGED << run_errors, respvars >>
    /\ UNCHANGED << limit, semaphore, batchvars, timevars, mode, diag, markers,
                    surfaced >>

\* Lines 339-341, 107 and 78-79: the optimizer returns.
OptimizerReturns(st) ==
    /\ proc = "workflow"
    /\ optimizer_call # << >>
    /\ optimizer_call' = << [optimizer_call[1] EXCEPT !.result = Some(st)] >>
    /\ surfaced' = << json_dumps(st) >>
    /\ Respond
    /\ UNCHANGED << limit, semaphore, batchvars, timevars, mode, diag, run_errors,
                    markers >>

\* Lines 343-344, 107 and 78-79: the optimizer raises and the handler logs it.
OptimizerRaises ==
    /\ proc = "workflow"
    /\ optimizer_call # << >>
    /\ run_errors' = run_errors \cup {"Error finding marker settings"}
    /\ Respond
    /\ UNCHANGED << limit, semaphore, batchvars, timevars, mode, diag, markers,
                    optimizer_call, surfaced >>

\* ---------------------------------------------------------- specifications
\* The batch as a whole: every way a job can end as the loop sees it (returned,
\* returned after a handled failure, raised), the engine reporting completion.
Next ==
    \/ TagVideosStart
    \/ \E j \in Jobs, ok \in BOOLEAN, errFails \in BOOLEAN : StartTask(j, ok, errFails)
    \/ \E j \in Jobs, ok \in BOOLEAN, errFails \in BOOLEAN : Wake(j, ok, errFails)
    \/ \E j \in Jobs : ProgressCb(j, 100)
    \/ \E j \in Jobs, r \in Results : InferenceReturns(j, r, "none", FALSE)
    \/ \E j \in Jobs, errFails \in BOOLEAN : InferenceRaises(j, errFails)
    \/ Consume
    \/ FinishBatch
    \/ Interrupt
    \/ \E j \in Jobs : Cancel(j)

Spec == Init /\ [][Next]_vars

\* The progress reports: every order of the percents of Percents from every job,
\* jobs that return and jobs whose engine call raises.
NextProgress ==
    \/ TagVideosStart
    \/ \E j \in Jobs : StartTask(j, TRUE, FALSE)
    \/ \E j \in Jobs : Wake(j, TRUE, FALSE)
    \/ \E j \in Jobs, p \in Percents : ProgressCb(j, p)
    \/ \E j \in Jobs, r \in Results : InferenceReturns(j, r, "none", FALSE)
    \/ \E j \in Jobs, errFails \in BOOLEAN : InferenceRaises(j, errFails)
    \/ Consume
    \/ FinishBatch
    \/ Interrupt
    \/ \E j \in Jobs : Cancel(j)

\* The progress values do not depend on what the catalogue holds of a scene:
\* the scenes start without analysis-derived tags.
InitProgress == Init /\ \A j \in Jobs : scene_tags[j] = {}

SpecProgress == InitProgress /\ [][NextProgress]_vars

\* The job's pipeline: every call of the try block and of the handler may be the
\* one that raises.  The progress callback and the interrupt, which touch neither
\* the catalogue nor the outcome of a job that ends, are left out.
NextPipeline ==
    \/ TagVideosStart
    \/ \E j \in Jobs, ok \in BOOLEAN, errFails \in BOOLEAN : StartTask(j, ok, errFails)
    \/ \E j \in Jobs, ok \in BOOLEAN, errFails \in BOOLEAN : Wake(j, ok, errFails)
    \/ \E j \in Jobs, r \in Results, f \in TrySteps \cup {"none"}, errFails \in BOOLEAN :
          InferenceReturns(j, r, f, errFails)
    \/ \E j \in Jobs, errFails \in BOOLEAN : InferenceRaises(j, errFails)
    \/ Consume
    \/ FinishBatch

\* The pipeline of one job does not depend on the gate: jobs run one at a time.
InitPipeline == Init /\ limit = 1

SpecPipeline == InitPipeline /\ [][NextPipeline]_vars

\* The clock of the event loop moves on between any two steps.
Tick ==
    /\ now < MaxTime
    /\ now' = now + 1
    /\ UNCHANGED << limit, semaphore, batchvars, batch_start_time, report,
                    respvars, reqvars >>

\* The timing lines of the batch: jobs run one at a time, a job returns or
\* raises out of its handler, and time passes anywhere.
NextTiming ==
    \/ TagVideosStart
    \/ \E j \in Jobs : StartTask(j, TRUE, FALSE)
    \/ \E j \in Jobs : Wake(j, TRUE, FALSE)
    \/ \E j \in Jobs, r \in Results : InferenceReturns(j, r, "none", FALSE)
    \/ \E j \in Jobs : InferenceRaises(j, TRUE)
    \/ Consume
    \/ FinishBatch
    \/ Tick

InitTiming == Init /\ limit = 1

SpecTiming == InitTiming /\ [][NextTiming]_vars

\* The whole process, from the loading of the module to its exit: every
\* outcome of the module body, of main and of the three workflows, the jobs of
\* a batch run without failing media calls.
NextMain ==
    \/ \E o \in DepOutcomes : LoadModule(o)
    \/ \E readOk \in BOOLEAN, initOk \in BOOLEAN : Main(readOk, initOk)
    \/ EnumerationRaises
    \/ \E ok \in BOOLEAN : collect_incorrect_markers_and_images(ok)
    \/ \E getOk \in BOOLEAN : FindMarkerSettings(getOk)
    \/ \E st \in Settings : OptimizerReturns(st)
    \/ OptimizerRaises
    \/ TagVideosStart
    \/ \E j \in Jobs : StartTask(j, TRUE, FALSE)
    \/ \E j \in Jobs : Wake(j, TRUE, FALSE)
    \/ \E j \in Jobs, r \in Results : InferenceReturns(j, r, "none", FALSE)
    \/ \E j \in Jobs, errFails \in BOOLEAN : InferenceRaises(j, errFails)
    \/ Consume
    \/ FinishBatch
    \/ Interrupt
    \/ \E j \in Jobs : Cancel(j)

\* The limit may be any integer the configuration holds, a negative one too.
InitMain ==
    /\ limit \in -1..MaxLimit
    /\ semaphore = NoSemaphore
    /\ InitCatalogue
    /\ InitBatch
    /\ InitQuiet
    /\ proc = "load"
    /\ mode \in Modes
    /\ markers \in SeqsUpTo({[primary_tag |-> "TagA", seconds |-> 10]}, 1)

SpecMain == InitMain /\ [][NextMain]_vars

\* The derive-settings workflow over every list of known-correct markers.
NextOptimizer ==
    \/ EnumerationRaises
    \/ \E getOk \in BOOLEAN : FindMarkerSettings(getOk)
    \/ \E st \in Settings : OptimizerReturns(st)
    \/ OptimizerRaises

InitOptimizer ==
    /\ limit = 1
    /\ semaphore = limit
    /\ InitCatalogue
    /\ InitBatch
    /\ InitQuiet
    /\ proc = "workflow"
    /\ mode = "find_marker_settings"
    /\ markers \in SeqsUpTo(KnownMarkers, MaxMarkers)

SpecOptimizer == InitOptimizer /\ [][NextOptimizer]_vars

\* The batch left to run to its end: a limit of at least one, at least one
\* scene, no interrupt.  Every call of a job may return or raise.
NextLive ==
    \/ TagVideosStart
    \/ \E j \in Jobs, ok \in BOOLEAN, errFails \in BOOLEAN : StartTask(j, ok, errFails)
    \/ \E j \in Jobs, ok \in BOOLEAN, errFails \in BOOLEAN : Wake(j, ok, errFails)
    \/ \E j \in Jobs, r \in Results : InferenceReturns(j, r, "none", FALSE)
    \/ \E j \in Jobs, errFails \in BOOLEAN : InferenceRaises(j, errFails)
    \/ Consume
    \/ FinishBatch

InitLive == Init /\ limit >= 1 /\ nscenes >= 1

\* What the event loop and the collaborators owe the batch.  The loop runs
\* every task that is ready (the coordinator, a task just created); the engine
\* ends every call, by a return or by an exception; and asyncio.Semaphore wakes
\* its waiters in the order of their arrival, so a job that waits is not passed
\* over for ever.
Fairness ==
    /\ WF_vars(TagVideosStart)
    /\ WF_vars(Consume)
    /\ WF_vars(FinishBatch)
    /\ \A j \in 1..MaxScenes :
          /\ WF_vars(j \in Jobs /\ \E ok \in BOOLEAN, errFails \in BOOLEAN :
                                     StartTask(j, ok, errFails))
          /\ SF_vars(j \in Jobs /\ \E ok \in BOOLEAN, errFails \in BOOLEAN :
                                     Wake(j, ok, errFails))
          /\ WF_vars(j \in Jobs /\
                       \/ \E r \in Results : InferenceReturns(j, r, "none", FALSE)
                       \/ \E errFails \in BOOLEAN : InferenceRaises(j, errFails))

SpecLive == InitLive /\ [][NextLive]_vars /\ Fairness

\* ------------------------------------------------------------------ claims
\* Jobs whose task has ended on its own account, and the batch once started.
Terminated == {j \in Jobs : task[j] \in {"returned", "raised"}}
Started == coord \in {"draining", "done", "interrupted"}

\* C1: at every instant at most concurrent_task_limit jobs are inside the gated
\* section of __tag_video, whatever the order of starts, completions and failures.
C1_GateBound == Cardinality(InGate) <= limit

C1_Witness ==
    /\ limit >= 1
    /\ Cardinality(InGate) = limit
    /\ \E j \in Jobs : task[j] = "waiting"

\* C2: a job whose pipeline raised leaves the batch running: the loop goes on (it
\* is draining or done, never left by the exception), every sibling was launched
\* and none is cancelled short of an interrupt, a waiting sibling finds a free
\* permit once the gate is empty, and at the end of the loop every task has ended
\* by itself and all N completions have been consumed.
C2_FailureIsolated ==
    (\E j \in Jobs : exc[j] # "none") =>
        /\ Started
        /\ \A i \in Jobs : task[i] # "none"
        /\ \A i \in Jobs : task[i] = "cancelled" => coord = "interrupted"
        /\ \A i \in Jobs :
              (coord = "draining" /\ task[i] = "waiting" /\ InGate = {} /\ limit >= 1)
                  => CanAcquire(semaphore)
        /\ coord = "done" =>
              /\ Terminated = Jobs
              /\ yielded = nscenes
              /\ done_queue = << >>

C2_Witness ==
    /\ coord = "done"
    /\ limit = 1
    /\ \E j \in Jobs : task[j] = "raised"
    /\ \E i \in Jobs : task[i] = "returned" /\ exc[i] = "none"

C4_Original ==
    [][(Len(log_progress) = 1 /\ Len(log_progress') = 1)
          => RatioLeq(log_progress[1], log_progress'[1])]_vars

\* C4 as amended: a step that lowers no job's stored fraction does not lower the
\* value given to log.progress; so the sequence is non-decreasing as long as no
\* job reports a percent below the one it reported last.
C4_Amended ==
    [][(/\ Len(log_progress) = 1
        /\ Len(log_progress') = 1
        /\ \A j \in Jobs : video_progress'[j] >= video_progress[j])
          => RatioLeq(log_progress[1], log_progress'[1])]_vars

C4_Witness ==
    /\ nscenes = 2
    /\ video_progress = << 100, 50 >>
    /\ log_progress = << Ratio(150, 200) >>

\* The aggregate of the stored fractions is 1.0.
AggregateFull == RatioEq(total_prog(video_progress, total_tasks), Ratio(1, 1))

\* C5 as stated: the aggregate is 1.0 exactly when every job has reported 1.0 or
\* has terminated.
C5_Original ==
    Started =>
        (AggregateFull <=> \A j \in Jobs : video_progress[j] = 100 \/ j \in Terminated)

\* C5 as amended: the aggregate is 1.0 exactly when every job's stored fraction is
\* 1.0, and the end of a job's task leaves its stored fraction as it was: a job
\* that ends after partial progress keeps the partial value.
C5_Amended ==
    /\ [](Started => (AggregateFull <=> \A j \in Jobs : video_progress[j] = 100))
    /\ [][\A j \in Jobs :
            (task[j] = "inference" /\ task'[j] # "inference")
                => video_progress'[j] = video_progress[j]]_vars

C5_Witness ==
    /\ coord = "done"
    /\ nscenes = 2
    /\ \E j \in Jobs : exc[j] # "none" /\ video_progress[j] = 50
    /\ ~AggregateFull
    /\ log_progress = << Ratio(1, 1) >>

\* C6: with no pending scene tag_videos returns at once: no task, no permit
\* taken, no engine call, no progress value, both counters at 0.
C6_EmptyBatch ==
    (nscenes = 0 /\ coord # "start") =>
        /\ coord = "returned"
        /\ total_tasks = 0
        /\ completed_tasks = 0
        /\ engine_calls = 0
        /\ semaphore = limit
        /\ log_progress = << >>
        /\ yielded = 0

C6_Witness == nscenes = 0 /\ coord = "returned" /\ limit >= 1

\* C7: after a job ends, the two clears and the two writes of a re-tagging have
\* either all completed or none of them has run.
C7_ClearWriteAtomic ==
    \A j \in Terminated :
        \/ (ClearSteps \cup WriteSteps) \subseteq media_calls[j]
        \/ (ClearSteps \cup WriteSteps) \cap media_calls[j] = {}

\* C8: no exception of a job's pipeline leaves __tag_video, and a job whose
\* pipeline raised ends with the error tag on its scene.
C8_RecoveredLocally ==
    \A j \in Jobs :
        /\ task[j] # "raised"
        /\ (j \in Terminated /\ exc[j] # "none") => stash[j].errored

\* C9: a job that succeeds with a non-empty tag union T leaves the scene with
\* exactly the tags of T, whatever tags it had before.
C9_RetagReplaces ==
    \A j \in Jobs :
        (task[j] = "returned" /\ exc[j] = "none" /\ detected_tags[j] # {})
            => NamesOf(stash[j].tags) = detected_tags[j]

C9_Witness ==
    \E j \in Jobs :
        /\ task[j] = "returned"
        /\ exc[j] = "none"
        /\ scene_tags[j] = TagIds({"X", "Y"})
        /\ detected_tags[j] = {"Z"}
        /\ NamesOf(stash[j].tags) = {"Z"}

\* C12: a concurrency limit of zero or less aborts the run before any job
\* starts: the batch is never begun, no task is created and no inference call
\* is made.
C12_NonPositiveLimitFatal ==
    limit <= 0 =>
        /\ coord = "start"
        /\ \A j \in Jobs : task[j] = "none"
        /\ engine_calls = 0

\* C13: once the initialization of the media handler has failed, the process
\* has exited with status 1 and nothing else has happened: no batch was begun,
\* no task created, no engine or optimizer call made, no response printed.
C13_InitFailureAborts ==
    "Failed to initialize media handler" \in run_errors =>
        /\ proc = "exit1"
        /\ stdout = << >>
        /\ coord = "start"
        /\ total_tasks = 0
        /\ \A j \in Jobs : task[j] = "none"
        /\ engine_calls = 0
        /\ optimizer_call = << >>

C13_Witness ==
    /\ "Failed to initialize media handler" \in run_errors
    /\ proc = "exit1"
    /\ mode = "tag_videos"
    /\ nscenes > 0
    /\ limit > 0
    /\ semaphore = limit

\* C14: every timing line the coordinator logs carries the completed count of
\* that moment, an average equal to the time elapsed since the start of the
\* batch divided by that count, and (on a task's line) a remaining time equal
\* to that average times the number of tasks not yet completed.
C14_TimingRecomputed ==
    [][ report' # report =>
          LET line == report'[1]
              elapsed == now' - batch_start_time'
          IN  /\ line.count = completed_tasks'
              /\ line.count > 0
              /\ RatioEq(line.avg, Ratio(elapsed, completed_tasks'))
              /\ line.kind = "task" =>
                    RatioEq(line.remaining,
                            Ratio((total_tasks' - completed_tasks') * elapsed,
                                  completed_tasks')) ]_vars

C14_Witness ==
    /\ report # << >>
    /\ report[1].kind = "task"
    /\ total_tasks = 2
    /\ report[1].count = 1
    /\ completed_tasks = 1
    /\ now - batch_start_time = 2
    /\ batch_start_time = 1
    /\ report[1].avg = Ratio(2, 1)
    /\ report[1].remaining = Ratio(2, 1)

\* C15: a job whose inference returned and that ended without an exception has
\* called remove_tagme_tag_from_scene, and its scene no longer carries the
\* pending tag, whether or not any tag was detected.
C15_PendingTagRemoved ==
    \A j \in Jobs :
        (task[j] = "returned" /\ exc[j] = "none")
            => /\ "remove_tagme_tag_from_scene" \in media_calls[j]
               /\ ~stash[j].tagme

C15_Witness ==
    \E j, k \in Jobs :
        /\ task[j] = "returned" /\ exc[j] = "none"
        /\ task[k] = "returned" /\ exc[k] = "none"
        /\ detected_tags[j] = {} /\ ~stash[j].tagme
        /\ "add_tags_to_video" \notin media_calls[j]
        /\ detected_tags[k] # {} /\ ~stash[k].tagme

\* C10: the permits held are exactly those of the jobs inside the gated section,
\* on every way out of it (return, handled failure, exception out of the handler,
\* cancellation), and all are free once no job is left inside.
C10_PermitsBalanced ==
    /\ semaphore = limit - Cardinality(InGate)
    /\ (coord = "done" \/ \A j \in Jobs : task[j] \in {"returned", "raised", "cancelled"})
          => semaphore = limit

C10_Witness ==
    /\ coord = "interrupted"
    /\ limit = 1
    /\ engine_calls = 2
    /\ \E j \in Jobs : task[j] = "raised"
    /\ \E j \in Jobs : task[j] = "cancelled"
    /\ semaphore = limit

\* C16: with no pending scene or more than one, find_marker_settings makes no
\* optimizer call, logs its error, and the process ends with the one "ok"
\* response; the process ends otherwise only when get_tagme_scenes raised.
C16_NotOneSceneSkipped ==
    nscenes # 1 =>
        /\ optimizer_call = << >>
        /\ surfaced = << >>
        /\ proc = "ok" =>
              /\ "Please tag exactly one scene" \in run_errors
              /\ stdout = << [output |-> "ok"] >>
        /\ "Please tag exactly one scene" \in run_errors => proc = "ok"
        /\ proc = "exit1" => run_errors = {"Plugin failed: get_tagme_scenes"}

C16_Witness ==
    /\ nscenes = 2
    /\ markers # << >>
    /\ proc = "ok"
    /\ "Please tag exactly one scene" \in run_errors
    /\ stdout = << [output |-> "ok"] >>
    /\ optimizer_call = << >>

\* C17: for every known-correct marker of the selected scene, the map given to
\* the optimizer holds under the marker's tag name the TimeFrame of that marker:
\* its start, its end when one is supplied and its start plus one otherwise,
\* and confidence 1.
C17_GroundTruthPerMarker ==
    optimizer_call # << >> =>
        \A i \in 1..Len(markers) :
            LET marker == markers[i]
                truth == optimizer_call[1].args.desired_timespan_data
                supplied == /\ "end_seconds" \in DOMAIN marker
                            /\ marker.end_seconds # None
            IN  /\ marker.primary_tag \in DOMAIN truth
                /\ truth[marker.primary_tag] =
                      [start |-> marker.seconds,
                       end |-> IF supplied THEN marker.end_seconds
                               ELSE Some(marker.seconds + 1),
                       total_confidence |-> 1]

\* C18: the optimizer is called with the ground-truth map and with the raw
\* inference output of the scene, and the settings it returns are the ones
\* logged.
C18_RawOutputPassed ==
    optimizer_call # << >> =>
        LET call == optimizer_call[1]
        IN  /\ call.args.desired_timespan_data = desired_timespan_data(markers)
            /\ call.args.existing_json \in Results
            /\ call.result # None => surfaced = << json_dumps(call.result[1]) >>

\* The initialization of run succeeded: the process went on to the dispatch.
InitSucceeded ==
    \/ proc \in {"workflow", "ok"}
    \/ /\ proc = "exit1"
       /\ run_errors \cap {"Plugin failed: get_tagme_scenes", "Plugin failed: export"} # {}

\* The workflow of the request's mode, if it has one, has returned.
WorkflowFinished ==
    /\ mode = "tag_videos" => coord \in {"returned", "done"}
    /\ mode = "find_marker_settings" =>
          \/ optimizer_call = << >>
          \/ optimizer_call[1].result # None
          \/ "Error finding marker settings" \in run_errors

\* C19: a process whose initialization succeeded has, when it ends, written
\* exactly one "ok" response, and a response is written only after the workflow
\* of the mode has finished.
C19_OneResponse ==
    /\ (InitSucceeded /\ proc \in {"ok", "exit1"}) => stdout = << [output |-> "ok"] >>
    /\ stdout # << >> => WorkflowFinished

C21_ReportOnEveryCompletion ==
    [][ yielded' = yielded + 1 =>
          /\ report' # report
          /\ report'[1].count = completed_tasks' ]_vars

\* C22 as stated: the value 1.0 is given to log.progress only once every task
\* has terminated and been consumed.
C22_Original ==
    (Len(log_progress) = 1 /\ RatioEq(log_progress[1], Ratio(1, 1)))
        => (coord = "done" /\ Finished = Jobs /\ yielded = total_tasks)

\* C22 as amended: log.progress(1.0) of line 170 runs once, when every task has
\* terminated and been consumed and none is inside the engine, and no value is
\* emitted after it; a progress callback may emit an aggregate of 1.0 before,
\* while jobs are still running.
C22_Amended ==
    /\ [](coord = "done" =>
            /\ Finished = Jobs
            /\ InGate = {}
            /\ yielded = total_tasks
            /\ total_tasks = nscenes
            /\ done_queue = << >>
            /\ log_progress = << Ratio(1, 1) >>)
    /\ [][coord = "done" => (coord' = "done" /\ log_progress' = log_progress)]_vars
    /\ [][(log_progress # << Ratio(1, 1) >> /\ log_progress' = << Ratio(1, 1) >>)
            => (coord = "draining" /\ coord' = "done")]_vars

C22_Witness ==
    /\ coord = "done"
    /\ nscenes = 2
    /\ yielded = 2
    /\ video_progress = << 100, 100 >>
    /\ log_progress = << Ratio(1, 1) >>

\* C23: the loop takes the finished tasks in the order in which they finished.
\* The tasks that finished and were not yet taken wait in that order, each
\* exactly once; a turn of the loop takes the oldest of them and a task that
\* ends joins at the back; and the loop can take its turn whenever such a task
\* exists, whatever the state of the tasks created before it.
C23_CompletionOrder ==
    /\ [](coord = "draining" =>
            /\ {done_queue[i] : i \in 1..Len(done_queue)} \subseteq Finished
            /\ Len(done_queue) = Cardinality(Finished) - yielded
            /\ \A i, k \in 1..Len(done_queue) : done_queue[i] = done_queue[k] => i = k
            /\ done_queue # << >> => ENABLED Consume)
    /\ [][yielded' = yielded + 1 => done_queue' = Tail(done_queue)]_vars
    /\ [][\A j \in Jobs :
            (j \notin Finished /\ task'[j] \in {"returned", "raised"})
                => done_queue' = Append(done_queue, j)]_vars

C23_Witness ==
    /\ coord = "draining"
    /\ nscenes = 2
    /\ limit = 2
    /\ task[1] = "inference"
    /\ task[2] \in {"returned", "raised"}
    /\ yielded = 1
    /\ completed_tasks = 1
    /\ done_queue = << >>

\* C24: the step that creates the tasks of a batch has, before creating them,
\* set total_tasks to the number of scenes and registered every scene at 0.0
\* and nothing else; so whenever a task exists, and whenever a job is inside the
\* engine and may report, its entry is there and the total is that of the batch.
C24_RegisteredBeforeTasks ==
    /\ [](\A j \in Jobs :
            task[j] # "none" =>
                /\ DOMAIN video_progress = Jobs
                /\ total_tasks = nscenes)
    /\ [][(\E j \in Jobs : task[j] = "none" /\ task'[j] # "none") =>
            /\ \A j \in Jobs : task[j] = "none" /\ task'[j] = "created"
            /\ video_progress' = [j \in Jobs |-> 0]
            /\ total_tasks' = nscenes
            /\ log_progress' = << Ratio(0, 1) >>]_vars

C24_Witness ==
    /\ coord = "draining"
    /\ nscenes = 2
    /\ \A j \in Jobs : task[j] = "created"
    /\ video_progress = << 0, 0 >>
    /\ total_tasks = 2
    /\ log_progress = << Ratio(0, 1) >>

\* C25: every progress update emits the sum of the fractions stored after it
\* divided by the number of registered jobs, a value between 0 and 1 for
\* percents between 0 and 100.
C25_AggregateRecomputed ==
    [][(/\ coord = "draining"
        /\ coord' = "draining"
        /\ (video_progress' # video_progress \/ log_progress' # log_progress))
          => /\ Len(log_progress') = 1
             /\ RatioEq(log_progress'[1],
                        Ratio(SumOver(video_progress', Jobs), 100 * nscenes))
             /\ RatioLeq(Ratio(0, 1), log_progress'[1])
             /\ RatioLeq(log_progress'[1], Ratio(1, 1))]_vars

C25_Witness ==
    /\ coord = "draining"
    /\ nscenes = 2
    /\ video_progress = << 50, 50 >>
    /\ log_progress = << Ratio(100, 200) >>

\* C26: a progress callback changes the entry of its own job alone, a job that
\* is inside the engine, and leaves the other entries and the total as they
\* were; no other step of the batch changes an entry, so each entry is what its
\* job stored last (0.0 before its first report).
C26_OwnEntryOnly ==
    /\ [][coord = "draining" =>
            /\ total_tasks' = total_tasks
            /\ DOMAIN video_progress' = DOMAIN video_progress
            /\ \A j \in Jobs :
                  video_progress'[j] # video_progress[j] =>
                      /\ task[j] = "inference"
                      /\ \A k \in Jobs \ {j} : video_progress'[k] = video_progress[k]]_vars
    /\ [](\A j \in Jobs :
            (Started /\ task[j] \in {"created", "waiting"}) => video_progress[j] = 0)

C26_Witness ==
    /\ coord = "draining"
    /\ nscenes = 2
    /\ limit = 2
    /\ task[1] = "inference"
    /\ task[2] = "inference"
    /\ video_progress = << 50, 100 >>
    /\ log_progress = << Ratio(150, 200) >>

\* C27: with a limit of at least one and calls that all end, every job that
\* waits on the semaphore gets its permit, every task ends, the loop consumes
\* all of them and tag_videos returns.
C27_BatchTerminates ==
    /\ \A j \in 1..MaxScenes :
          (j \in Jobs /\ task[j] = "waiting") ~> (j \in Jobs /\ task[j] # "waiting")
    /\ <>(/\ coord = "done"
          /\ Finished = Jobs
          /\ yielded = nscenes
          /\ semaphore = limit)

C27_Witness ==
    /\ coord = "done"
    /\ limit = 1
    /\ nscenes = 2
    /\ \E j \in Jobs : task[j] = "raised"
    /\ yielded = 2
    /\ semaphore = 1

\* C28: completed_tasks is 0 when the batch starts, grows by exactly one with
\* every task the loop consumes, returned or raised, and by nothing else, stays
\* between 0 and total_tasks, and equals total_tasks when the batch has drained.
C28_CounterBounds ==
    /\ [](/\ 0 <= completed_tasks
          /\ completed_tasks <= total_tasks
          /\ coord = "done" => completed_tasks = total_tasks)
    /\ [][(coord = "start" /\ coord' = "draining") => completed_tasks' = 0]_vars
    /\ [][yielded' = yielded + 1 => completed_tasks' = completed_tasks + 1]_vars
    /\ [][completed_tasks' # completed_tasks =>
            (yielded' = yielded + 1 /\ completed_tasks' = completed_tasks + 1)]_vars

C28_Witness ==
    /\ coord = "done"
    /\ nscenes = 2
    /\ \E j, k \in Jobs : task[j] = "raised" /\ task[k] = "returned"
    /\ yielded = 2
    /\ completed_tasks = 2
    /\ total_tasks = 2

\* C29: a job whose inference gave an empty tag union makes no clear, no
\* get_tag_ids and no write: the scene keeps the tags and markers it had, and
\* when the job succeeds its only call was the removal of the pending tag.
C29_EmptyUnionKeepsPrior ==
    \A j \in Jobs :
        detected_tags[j] = {} =>
            /\ media_calls[j] \cap (ClearSteps \cup WriteSteps \cup {"get_tag_ids"}) = {}
            /\ stash[j].tags = scene_tags[j]
            /\ \E pr \in Priors : pr.tags = scene_tags[j] /\ stash[j].markers = pr.markers
            /\ (task[j] = "returned" /\ exc[j] = "none") =>
                  /\ media_calls[j] = {"remove_tagme_tag_from_scene"}
                  /\ ~stash[j].tagme

C29_Witness ==
    \E j \in Jobs :
        /\ task[j] = "returned"
        /\ exc[j] = "none"
        /\ detected_tags[j] = {}
        /\ scene_tags[j] = TagIds({"X", "Y"})
        /\ stash[j].tags = TagIds({"X", "Y"})
        /\ stash[j].markers = {"X"}
        /\ ~stash[j].tagme

C31_LastMarkerWins ==
    optimizer_call # << >> =>
        LET truth == optimizer_call[1].args.desired_timespan_data
            Positions(t) == {i \in 1..Len(markers) : markers[i].primary_tag = t}
            Last(t) == CHOOSE i \in Positions(t) : \A k \in Positions(t) : k <= i
        IN  /\ DOMAIN truth = {markers[i].primary_tag : i \in 1..Len(markers)}
            /\ \A t \in DOMAIN truth : truth[t] = TimeFrame(markers[Last(t)])

C31_Witness ==
    /\ optimizer_call # << >>
    /\ markers = << [primary_tag |-> "TagA", seconds |-> 10, end_seconds |-> Some(15)],
                    [primary_tag |-> "TagA", seconds |-> 12] >>
    /\ optimizer_call[1].args.desired_timespan_data =
          [t \in {"TagA"} |-> [start |-> 12, end |-> Some(13), total_confidence |-> 1]]

====
